---- MODULE Spec2Model ----
(***************************************************************************)
(* fakenews-tracer: the propagation-graph builder and origin tracer of     *)
(* graph_builder.py and the rule-based scorer of credibility_checker.py.   *)
(*                                                                         *)
(* Strings are sequences of one-character strings.  A publish_date is a    *)
(* record [kind, day]: kind says what the text is ("naive": a timestamp    *)
(* without time zone, "aware": a time-zone-qualified timestamp, or one of  *)
(* the texts that do not parse) and day is the calendar day it names.      *)
(* Edge weights are kept in tenths (1.0 is 10), candidacy scores in tenths *)
(* as well, title similarity as the pair (matched characters, total).      *)
(***************************************************************************)
EXTENDS Integers, Sequences, FiniteSets, TLC

VARIABLES
    pc,             \* position of the running call
    now,            \* the day datetime.now() falls on
    articles_list,  \* argument of build_propagation_graph
    k,              \* index of the article the node loop is at
    nodes,          \* G.nodes in insertion order (a sequence of urls)
    data,           \* G.nodes[url]: the attributes of each node
    edges,          \* G.edges: records [src, dst, weight, relationship]
    i,              \* outer index of the pairwise loop
    j,              \* inner index of the pairwise loop
    start_url,      \* argument of trace_origin
    result,         \* what trace_origin returned
    article_dict,   \* arguments of check_credibility
    custom_blacklist,
    assessment,     \* what check_credibility returned
    results         \* the mapping batch_check_credibility fills

vars == <<pc, now, articles_list, k, nodes, data, edges, i, j, start_url, result,
          article_dict, custom_blacklist, assessment, results>>

graphVars == <<nodes, data, edges>>
credVars == <<article_dict, custom_blacklist, assessment, results>>

-----------------------------------------------------------------------------
(* Bounds of the model *)

MaxArticles == 2
MaxNodes == 7
SmallNodes == 3

-----------------------------------------------------------------------------
(* Strings *)

UpperChars == <<"A","B","C","D","E","F","G","H","I","J","K","L","M",
                "N","O","P","Q","R","S","T","U","V","W","X","Y","Z">>
LowerChars == <<"a","b","c","d","e","f","g","h","i","j","k","l","m",
                "n","o","p","q","r","s","t","u","v","w","x","y","z">>
Digits == {"0","1","2","3","4","5","6","7","8","9"}

UpperSet == {UpperChars[n] : n \in DOMAIN UpperChars}
LowerSet == {LowerChars[n] : n \in DOMAIN LowerChars}
IsUpper(c) == c \in UpperSet
IsLower(c) == c \in LowerSet
IsLetter(c) == IsUpper(c) \/ IsLower(c)

\* the lower-case letter of each upper-case letter
LowerOf ==
    [c \in UpperSet |->
        LowerChars[CHOOSE n \in DOMAIN UpperChars : UpperChars[n] = c]]
LowerChar(c) == IF IsUpper(c) THEN LowerOf[c] ELSE c

\* str.lower()
Lower(s) == [n \in DOMAIN s |-> LowerChar(s[n])]

\* s[lo..hi] (1-based, inclusive) without SubSeq's corner cases
Slice(s, lo, hi) == [n \in 1..(hi - lo + 1) |-> s[lo + n - 1]]

\* `sub in s`
IsSubstring(sub, s) ==
    \E p \in 1..(Len(s) - Len(sub) + 1) :
        \A n \in 1..Len(sub) : s[p + n - 1] = sub[n]

Max(S) == CHOOSE x \in S : \A y \in S : y <= x
Min(S) == CHOOSE x \in S : \A y \in S : x <= y

-----------------------------------------------------------------------------
(* difflib.SequenceMatcher(None, a, b).ratio(), for titles shorter than    *)
(* the 200 characters at which the autojunk heuristic starts               *)

RECURSIVE RunLen(_, _, _, _, _, _)
RunLen(a, b, p, q, ahi, bhi) ==
    IF p > ahi \/ q > bhi THEN 0
    ELSE IF a[p] # b[q] THEN 0
    ELSE 1 + RunLen(a, b, p + 1, q + 1, ahi, bhi)

\* the longest block a[p..p+n-1] = b[q..q+n-1] inside a[alo..ahi], b[blo..bhi];
\* of the longest, the one starting earliest in a, then earliest in b
FindLongestMatch(a, b, alo, ahi, blo, bhi) ==
    LET size(p, q) == RunLen(a, b, p, q, ahi, bhi)
        best == Max({0} \cup {size(p, q) : p \in alo..ahi, q \in blo..bhi})
    IN  IF best = 0 THEN [p |-> alo, q |-> blo, n |-> 0]
        ELSE LET bp == Min({p \in alo..ahi : \E q \in blo..bhi : size(p, q) = best})
                 bq == Min({q \in blo..bhi : size(bp, q) = best})
             IN  [p |-> bp, q |-> bq, n |-> best]

\* sum of the sizes of get_matching_blocks()
RECURSIVE MatchedChars(_, _, _, _, _, _)
MatchedChars(a, b, alo, ahi, blo, bhi) ==
    IF alo > ahi \/ blo > bhi THEN 0
    ELSE LET m == FindLongestMatch(a, b, alo, ahi, blo, bhi)
         IN  IF m.n = 0 THEN 0
             ELSE m.n + MatchedChars(a, b, alo, m.p - 1, blo, m.q - 1)
                      + MatchedChars(a, b, m.p + m.n, ahi, m.q + m.n, bhi)

\* ratio() = 2.0 * matched / total, 1.0 for two empty strings; kept as a fraction
Ratio(a, b) ==
    IF Len(a) + Len(b) = 0 THEN [matched |-> 1, total |-> 2]
    ELSE [matched |-> MatchedChars(a, b, 1, Len(a), 1, Len(b)), total |-> Len(a) + Len(b)]

\* similarity = SequenceMatcher(None, title1.lower(), title2.lower()).ratio()
Similarity(title1, title2) == Ratio(Lower(title1), Lower(title2))

\* similarity > 0.7
AboveThreshold(r) == 20 * r.matched > 7 * r.total

-----------------------------------------------------------------------------
(* Dates *)

None == [kind |-> "none", day |-> 0]

\* dateutil's parser accepts the text: it names a day, with or without a zone
Parses(date_string) == date_string.kind \in {"naive", "aware"}

\* parse_date_safe: the parsed datetime, or None for an empty text, a sentinel
\* or a text the parser rejects
parse_date_safe(date_string) ==
    IF /\ date_string.kind # "empty"
       /\ date_string.kind # "unknown"
       /\ date_string.kind # "unknown_date"
       /\ Parses(date_string)
    THEN date_string
    ELSE None

\* datetime.now() - d and d1 < d2 raise TypeError when exactly one side
\* carries a time zone; datetime.now() carries none
SubtractRaises(d) == d.kind = "aware"
CompareRaises(d1, d2) == d1.kind # d2.kind

\* (datetime.now() - d).days
DaysOld(today, d) == today - d.day

-----------------------------------------------------------------------------
(* calculate_edge_weight, in tenths; raised = TRUE when the call raises *)

Raised == [raised |-> TRUE, weight |-> 0]

RecencyBonus(days_old) ==
    IF days_old < 7 THEN 20
    ELSE IF days_old < 30 THEN 10
    ELSE IF days_old < 90 THEN 5
    ELSE 0

SwappedWeight(today, src, tgt) ==
    LET target_date == parse_date_safe(src.publish_date)
    IN  IF target_date # None /\ SubtractRaises(target_date) THEN Raised
        ELSE [raised |-> FALSE,
              weight |-> 10 + (IF target_date # None
                               THEN RecencyBonus(DaysOld(today, target_date)) ELSE 0)
                            + (IF src.domain = tgt.domain THEN 5 ELSE 0)]
calculate_edge_weight(today, src, tgt) ==
    LET target_date == parse_date_safe(tgt.publish_date)
    IN  IF target_date # None /\ SubtractRaises(target_date) THEN Raised
        ELSE [raised |-> FALSE,
              weight |-> 10 + (IF target_date # None
                               THEN RecencyBonus(DaysOld(today, target_date)) ELSE 0)
                            + (IF src.domain = tgt.domain THEN 5 ELSE 0)]

-----------------------------------------------------------------------------
(* networkx.DiGraph *)

has_edge(E, u, v) == \E e \in E : e.src = u /\ e.dst = v

\* G.add_edge(u, v, weight=, relationship=): a new edge, or new attributes for
\* the edge already there
add_edge(E, u, v, w, rel) ==
    {e \in E : ~(e.src = u /\ e.dst = v)}
        \cup {[src |-> u, dst |-> v, weight |-> w, relationship |-> rel]}

in_degree(E, n) == Cardinality({e \in E : e.dst = n})
out_degree(E, n) == Cardinality({e \in E : e.src = n})

Successors(E, n) == {e.dst : e \in {f \in E : f.src = n}}

\* nx.descendants(G, source): every node a directed path leads to, source excluded
RECURSIVE Reach(_, _)
Reach(E, seen) ==
    LET more == seen \cup UNION {Successors(E, n) : n \in seen}
    IN  IF more = seen THEN seen ELSE Reach(E, more)
ReachedWithSource(E, source) == Reach(E, {source})
descendants(E, source) == Reach(E, {source}) \ {source}

-----------------------------------------------------------------------------
(* Inputs of build_propagation_graph *)

Range(f) == {f[x] : x \in DOMAIN f}

\* sequences of at most n elements of S
RECURSIVE SeqsUpTo(_, _)
SeqsUpTo(S, n) ==
    IF n = 0 THEN {<<>>}
    ELSE LET shorter == SeqsUpTo(S, n - 1)
         IN  shorter \cup {Append(q, x) : q \in {r \in shorter : Len(r) = n - 1}, x \in S}

Today == 100

DomainA == <<"a",".","c","o">>
DomainB == <<"b",".","c","o">>
UrlA1 == DomainA \o <<"/","1">>
UrlA2 == DomainA \o <<"/","2">>
UrlB1 == DomainB \o <<"/","1">>
UrlPool == {UrlA1, UrlA2, UrlB1}

\* the host part of a url: what the scraper stores as the article's domain
HostOf(url) == Slice(url, 1, Min({p \in 1..Len(url) : url[p] = "/"}) - 1)

TitlePool == {<<"A","b","a">>, <<"a","c","b","a","b">>, <<"C","b">>}

Naive(day) == [kind |-> "naive", day |-> day]
Aware(day) == [kind |-> "aware", day |-> day]
Unknown == [kind |-> "unknown", day |-> 0]
UnknownDate == [kind |-> "unknown_date", day |-> 0]
EmptyDate == [kind |-> "empty", day |-> 0]
Malformed == [kind |-> "malformed", day |-> 0]

\* two days apart, the later one less than a week before Today
DatePool == {Naive(Today - 40), Naive(Today - 5), Aware(Today - 5), Unknown}

\* a cited source {url, domain, link_text}: a link to article a.co/1
SourceA == [url |-> UrlA1, domain |-> DomainA]
SourcesPool == {<<>>, <<SourceA>>}

Article(u, t, d, s) ==
    [url |-> u, title |-> t, publish_date |-> d, domain |-> HostOf(u), sources |-> s]

\* line 52, for every two titles of the pool
TitleSimilarity == [t1 \in TitlePool, t2 \in TitlePool |-> Similarity(t1, t2)]

\* the url is the article's identity: no two articles of a list share it
Distinct(q) == \A m, n \in DOMAIN q : m # n => q[m] # q[n]

NoUrl == <<>>
NoResult == [returned |-> FALSE]
NoArticle == [domain |-> <<>>]
NoAssessment == [returned |-> FALSE]
NoResults == <<>>

\* the optional argument custom_blacklist: absent (None) or a list of domains
NoBlacklist == [given |-> FALSE, domains |-> <<>>]
Blacklist(domains) == [given |-> TRUE, domains |-> domains]

Idle ==
    /\ start_url = NoUrl /\ result = NoResult
    /\ article_dict = NoArticle /\ custom_blacklist = NoBlacklist /\ assessment = NoAssessment
    /\ results = NoResults

-----------------------------------------------------------------------------
(* build_propagation_graph *)

\* the call build_propagation_graph(articles_list) is entered
Called(titles, dates) ==
    /\ pc = "nodes"
    /\ now = Today
    /\ \E urls \in {q \in SeqsUpTo(UrlPool, MaxArticles) : Distinct(q)} :
       \E rest \in [DOMAIN urls -> titles \X dates \X SourcesPool] :
          articles_list = [n \in DOMAIN urls |->
                              Article(urls[n], rest[n][1], rest[n][2], rest[n][3])]
    /\ k = 0
    /\ nodes = <<>> /\ data = <<>> /\ edges = {}
    /\ i = 0 /\ j = 0
    /\ Idle

Init == Called(TitlePool, DatePool)

\* lines 27-32: G.add_node(url, title=, publish_date=, domain=, sources=); a url
\* seen before keeps its place in G.nodes and takes the new attributes
add_node(G, article) ==
    LET url == article.url
        attrs == [title |-> article.title, publish_date |-> article.publish_date,
                  domain |-> article.domain, sources |-> article.sources]
    IN  [nodes |-> IF url \in Range(G.nodes) THEN G.nodes ELSE Append(G.nodes, url),
         data |-> [u \in DOMAIN G.data \cup {url} |-> IF u = url THEN attrs ELSE G.data[u]]]

\* lines 23-32: the loop over articles_list
RECURSIVE AddAll(_, _, _)
AddAll(G, articles, n) ==
    IF n > Len(articles) THEN G ELSE AddAll(add_node(G, articles[n]), articles, n + 1)

\* lines 39-40: if i == j: continue
NeverSkip(a, b) == FALSE
SkipsPair(a, b) == a = b

\* the ordered pairs (i, j) the double loop of lines 37-38 runs the body for, in
\* the order it reaches them, numbered from 1
PairsOf(n) == {<<a, b>> : a \in 1..n, b \in 1..n} \ {q \in (1..n) \X (1..n) : SkipsPair(q[1], q[2])}
Before(q, r) == q[1] < r[1] \/ (q[1] = r[1] /\ q[2] < r[2])
PairAt(n, pos) ==
    CHOOSE q \in PairsOf(n) : Cardinality({r \in PairsOf(n) : Before(r, q)}) = pos - 1
PairSeq == [n \in 0..(MaxArticles + 1) |->
               [pos \in 1..Cardinality(PairsOf(n)) |-> PairAt(n, pos)]]

\* lines 20-35: the nodes are added, nodes_list = list(G.nodes(data=True))
AddNodes ==
    /\ pc = "nodes"
    /\ LET G == AddAll([nodes |-> <<>>, data |-> <<>>], articles_list, 1)
       IN  nodes' = G.nodes /\ data' = G.data
    /\ pc' = "pairs"
    /\ k' = 1
    /\ UNCHANGED <<now, articles_list, edges, i, j, start_url, result>>
    /\ UNCHANGED credVars

\* a source that counts only when it names node 2's url
CitesUrlOnly(source, url2, data2) == IsSubstring(url2, source.url)

\* line 45: the source names node 2's url or node 2's domain
Cites(source, url2, data2) ==
    IsSubstring(url2, source.url) \/ IsSubstring(data2.domain, source.domain)

\* a citation edge that gives way to the edge already there
CitationIfAbsent(E, today, url1, data1, url2, data2) ==
    LET w == calculate_edge_weight(today, data1, data2)
    IN  IF \E n \in DOMAIN data1.sources : Cites(data1.sources[n], url2, data2)
        THEN IF w.raised THEN [raised |-> TRUE, edges |-> E]
             ELSE IF has_edge(E, url1, url2) THEN [raised |-> FALSE, edges |-> E]
             ELSE [raised |-> FALSE, edges |-> add_edge(E, url1, url2, w.weight, "citation")]
        ELSE [raised |-> FALSE, edges |-> E]

\* lines 42-47
CitationStep(E, today, url1, data1, url2, data2) ==
    LET w == calculate_edge_weight(today, data1, data2)
    IN  IF \E n \in DOMAIN data1.sources : Cites(data1.sources[n], url2, data2)
        THEN IF w.raised THEN [raised |-> TRUE, edges |-> E]
             ELSE [raised |-> FALSE, edges |-> add_edge(E, url1, url2, w.weight, "citation")]
        ELSE [raised |-> FALSE, edges |-> E]

\* lines 63-64 and 67-68: if not G.has_edge(u, v): G.add_edge(.., 'similarity')
OverwriteSimilarity(E, u, v, w) == add_edge(E, u, v, w, "similarity")
AddSimilarity(E, u, v, w) ==
    IF ~has_edge(E, u, v) THEN add_edge(E, u, v, w, "similarity") ELSE E

\* lines 49-68
SimilarityStep(E, today, url1, data1, url2, data2) ==
    LET date1 == parse_date_safe(data1.publish_date)
        date2 == parse_date_safe(data2.publish_date)
        w12 == calculate_edge_weight(today, data1, data2)
        w21 == calculate_edge_weight(today, data2, data1)
    IN  IF ~AboveThreshold(TitleSimilarity[data1.title, data2.title])
        THEN [raised |-> FALSE, edges |-> E]
        ELSE IF date1 = None \/ date2 = None THEN [raised |-> FALSE, edges |-> E]
        ELSE IF CompareRaises(date1, date2) THEN [raised |-> TRUE, edges |-> E]
        ELSE IF date1.day < date2.day
        THEN IF w12.raised THEN [raised |-> TRUE, edges |-> E]
             ELSE [raised |-> FALSE, edges |-> AddSimilarity(E, url1, url2, w12.weight)]
        ELSE IF date2.day < date1.day
        THEN IF w21.raised THEN [raised |-> TRUE, edges |-> E]
             ELSE [raised |-> FALSE, edges |-> AddSimilarity(E, url2, url1, w21.weight)]
        ELSE [raised |-> FALSE, edges |-> E]

\* lines 42-68, the body of the loop for one ordered pair
PairBody(E, today, url1, data1, url2, data2) ==
    LET cited == CitationStep(E, today, url1, data1, url2, data2)
    IN  IF cited.raised THEN cited
        ELSE SimilarityStep(cited.edges, today, url1, data1, url2, data2)

\* one pass of the loop body, lines 42-68, for the k-th ordered pair
PairStep ==
    /\ pc = "pairs"
    /\ k <= Len(PairSeq[Len(nodes)])
    /\ LET q == PairSeq[Len(nodes)][k]
           out == PairBody(edges, now, nodes[q[1]], data[nodes[q[1]]],
                           nodes[q[2]], data[nodes[q[2]]])
       IN  /\ ~out.raised
           /\ edges' = out.edges
           /\ i' = q[1] /\ j' = q[2]
    /\ k' = k + 1
    /\ UNCHANGED <<pc, now, articles_list, nodes, data, start_url, result>>
    /\ UNCHANGED credVars

\* a TypeError out of lines 46, 60, 62 or 66 ends the call
PairRaise ==
    /\ pc = "pairs"
    /\ k <= Len(PairSeq[Len(nodes)])
    /\ LET q == PairSeq[Len(nodes)][k]
       IN  /\ PairBody(edges, now, nodes[q[1]], data[nodes[q[1]]],
                       nodes[q[2]], data[nodes[q[2]]]).raised
           /\ i' = q[1] /\ j' = q[2]
    /\ pc' = "build_raised"
    /\ UNCHANGED <<now, articles_list, k, graphVars, start_url, result>>
    /\ UNCHANGED credVars

\* line 70: return G
BuildReturn ==
    /\ pc = "pairs"
    /\ k > Len(PairSeq[Len(nodes)])
    /\ pc' = "built"
    /\ UNCHANGED <<now, articles_list, k, graphVars, i, j, start_url, result>>
    /\ UNCHANGED credVars

Build == AddNodes \/ PairStep \/ PairRaise \/ BuildReturn

-----------------------------------------------------------------------------
(* trace_origin *)

PyNone == <<"None">>

\* lines 185-186
mainstream_domains ==
    { <<"b","b","c",".","c","o","m">>, <<"c","n","n",".","c","o","m">>,
      <<"r","e","u","t","e","r","s",".","c","o","m">>,
      <<"a","p","n","e","w","s",".","c","o","m">>,
      <<"n","y","t","i","m","e","s",".","c","o","m">>,
      <<"w","a","s","h","i","n","g","t","o","n","p","o","s","t",".","c","o","m">>,
      <<"t","h","e","g","u","a","r","d","i","a","n",".","c","o","m">> }

\* lines 147-150, in tenths: out_degree - in_degree, plus days_old / 10 when the
\* date parses
CandidateScore(E, today, node, node_data) ==
    LET publish_date == parse_date_safe(node_data.publish_date)
    IN  10 * (out_degree(E, node) - in_degree(E, node))
          + (IF publish_date # None THEN DaysOld(today, publish_date) ELSE 0)

\* line 149 raises for a node whose date carries a time zone
ScoreRaises(node_data) ==
    LET publish_date == parse_date_safe(node_data.publish_date)
    IN  publish_date # None /\ SubtractRaises(publish_date)

\* candidates only for the nodes whose date parses
DatedCandidates(N, D, E, today) ==
    LET dated == {n \in DOMAIN N : parse_date_safe(D[N[n]].publish_date) # None}
        Nth(p) == CHOOSE n \in dated : Cardinality({x \in dated : x < n}) = p - 1
    IN  [p \in 1..Cardinality(dated) |->
            [node |-> N[Nth(p)],
             score |-> CandidateScore(E, today, N[Nth(p)], D[N[Nth(p)]]),
             domain |-> D[N[Nth(p)]].domain]]

\* lines 138-157: one candidate per node, in the order of graph.nodes()
Candidates(N, D, E, today) ==
    [n \in DOMAIN N |-> [node |-> N[n],
                         score |-> CandidateScore(E, today, N[n], D[N[n]]),
                         domain |-> D[N[n]].domain]]

\* line 160: list.sort(key=score, reverse=True); the sort is stable, so a
\* candidate goes behind every candidate already placed whose score is not lower
InsertBeforeTies(sorted, c) ==
    LET ahead == Cardinality({n \in DOMAIN sorted : sorted[n].score > c.score})
    IN  [n \in 1..(Len(sorted) + 1) |->
            IF n <= ahead THEN sorted[n]
            ELSE IF n = ahead + 1 THEN c
            ELSE sorted[n - 1]]
InsertStable(sorted, c) ==
    LET ahead == Cardinality({n \in DOMAIN sorted : sorted[n].score >= c.score})
    IN  [n \in 1..(Len(sorted) + 1) |->
            IF n <= ahead THEN sorted[n]
            ELSE IF n = ahead + 1 THEN c
            ELSE sorted[n - 1]]

RECURSIVE SortFrom(_, _, _)
SortFrom(sorted, cands, n) ==
    IF n > Len(cands) THEN sorted
    ELSE SortFrom(InsertStable(sorted, cands[n]), cands, n + 1)

SortByScore(cands) == SortFrom(<<>>, cands, 1)

\* the sequences of n distinct members of S: what list(a set)[:n] can be, the
\* iteration order of a set of strings being the interpreter's choice
RECURSIVE Arrangements(_, _)
Arrangements(S, n) ==
    IF n = 0 \/ S = {} THEN {<<>>}
    ELSE UNION {{<<x>> \o rest : rest \in Arrangements(S \ {x}, n - 1)} : x \in S}

\* line 203: propagated_to[:5]
PathLimit == 5
Shown(propagated_to) == Arrangements(propagated_to, PathLimit)

\* lines 187-189
MainstreamCount(D, propagated_to) ==
    Cardinality({url \in propagated_to :
                    \E domain \in mainstream_domains : IsSubstring(domain, D[url].domain)})

\* lines 130-135
EmptyAsFallback ==
    [origin |-> UrlA1, path |-> <<UrlA1>>,
     summary |-> [text |-> "Unable to determine origin"]]
EmptyResult ==
    [origin |-> PyNone, path |-> <<>>,
     summary |-> [text |-> "No data available for tracing"]]

\* lines 162-167
FallbackResult(start) ==
    [origin |-> start, path |-> <<start>>,
     summary |-> [text |-> "Unable to determine origin"]]

\* lines 192-198
Summary(origin_domain, spread, mainstream_count) ==
    [text |-> "Story originated on",
     origin_domain |-> origin_domain,
     then |-> IF spread = 0 THEN "(no clear propagation detected)"
              ELSE IF mainstream_count > 0 THEN "then spread to, including mainstream outlets"
              ELSE "then spread to",
     spread |-> spread,
     mainstream |-> IF spread > 0 THEN mainstream_count ELSE 0]

\* lines 169-207, with `shown` the first five of list(descendants)
ResultWithoutCounts(N, D, E, today, shown) ==
    LET origin_candidates == SortByScore(Candidates(N, D, E, today))
        origin_node == origin_candidates[1].node
        origin_domain == origin_candidates[1].domain
        propagated_to == descendants(E, origin_node)
        mainstream_count == MainstreamCount(D, propagated_to)
    IN  [origin |-> origin_node,
         origin_domain |-> origin_domain,
         path |-> <<origin_node>> \o shown,
         summary |-> Summary(origin_domain, Cardinality(propagated_to), mainstream_count)]
FullResult(N, D, E, today, shown) ==
    LET origin_candidates == SortByScore(Candidates(N, D, E, today))
        origin_node == origin_candidates[1].node
        origin_domain == origin_candidates[1].domain
        propagated_to == descendants(E, origin_node)
        mainstream_count == MainstreamCount(D, propagated_to)
    IN  [origin |-> origin_node,
         origin_domain |-> origin_domain,
         path |-> <<origin_node>> \o shown,
         summary |-> Summary(origin_domain, Cardinality(propagated_to), mainstream_count),
         total_propagation |-> Cardinality(propagated_to),
         mainstream_coverage |-> mainstream_count]

\* lines 130-207: the record returned for a start url, with `shown` the first
\* five of list(descendants)
TraceResult(N, D, E, today, start, shown) ==
    IF N = <<>> THEN EmptyResult
    ELSE IF Candidates(N, D, E, today) = <<>> THEN FallbackResult(start)
    ELSE FullResult(N, D, E, today, shown)

OriginOf(N, D, E, today) == SortByScore(Candidates(N, D, E, today))[1].node

StartUrls == {UrlA1, <<"x",".","c","o","/","1">>}

\* lines 130-135: if not graph.nodes(): return the 'no data' record
TraceEmpty ==
    /\ pc = "built"
    /\ nodes = <<>>
    /\ \E s \in StartUrls : start_url' = s
    /\ result' = EmptyResult
    /\ pc' = "traced"
    /\ UNCHANGED <<now, articles_list, k, graphVars, i, j>>
    /\ UNCHANGED credVars

\* lines 137-207
TraceOrigin ==
    /\ pc = "built"
    /\ nodes # <<>>
    /\ \A n \in DOMAIN nodes : ~ScoreRaises(data[nodes[n]])
    /\ \E s \in StartUrls : start_url' = s
    /\ IF Candidates(nodes, data, edges, now) = <<>>
       THEN result' = FallbackResult(start_url')
       ELSE \* FullResult(.., shown) for every order list(descendants) can have:
            \* the orders differ in the path only
            \E full \in {FullResult(nodes, data, edges, now, <<>>)} :
            \E shown \in Shown(descendants(edges, full.origin)) :
               result' = [full EXCEPT !.path = <<full.origin>> \o shown]
    /\ pc' = "traced"
    /\ UNCHANGED <<now, articles_list, k, graphVars, i, j>>
    /\ UNCHANGED credVars

\* line 149: datetime.now() - publish_date raises TypeError, outside any try
TraceRaise ==
    /\ pc = "built"
    /\ nodes # <<>>
    /\ \E n \in DOMAIN nodes : ScoreRaises(data[nodes[n]])
    /\ \E s \in StartUrls : start_url' = s
    /\ pc' = "trace_raised"
    /\ UNCHANGED <<now, articles_list, k, graphVars, i, j, result>>
    /\ UNCHANGED credVars

Trace == TraceEmpty \/ TraceOrigin \/ TraceRaise

-----------------------------------------------------------------------------
(* The request of app.py: build the graph of the articles, trace its origin *)

Next == Build \/ Trace

Spec == Init /\ [][Next]_vars

\* the same request over articles of one title whose dates lie on both sides of
\* every age limit of calculate_edge_weight (7, 30 and 90 days before Today)
AgePool == {6, 7, 29, 30, 89, 90}
WeightDatePool == {Naive(Today - age) : age \in AgePool} \cup {Aware(Today - 6), Malformed}

InitWeight == Called({<<"a","c","b","a","b">>}, WeightDatePool)

SpecWeight == InitWeight /\ [][Next]_vars

\* the articles of the repository's graph test: dated 2024-01-15 and 2024-01-14,
\* some thousand days before now; a zone-qualified date besides them
ScenarioAge == 1024
ScenarioDatePool ==
    {Naive(Today - ScenarioAge), Naive(Today - ScenarioAge - 1),
     Aware(Today - ScenarioAge)}

InitScenario == Called(TitlePool, ScenarioDatePool)

SpecScenario == InitScenario /\ [][Next]_vars

-----------------------------------------------------------------------------
(* trace_origin called on a graph of any shape: every graph of at most        *)
(* SmallNodes nodes, and chains, rings and stars of up to MaxNodes nodes      *)

DigitChars == <<"1","2","3","4","5","6","7","8","9">>
TraceUrl(n) == <<"n", DigitChars[n]>>
TraceNodes(n) == [m \in 1..n |-> TraceUrl(m)]

\* every second node is a page of a mainstream outlet
DomainNews == <<"n","e","w","s",".","b","b","c",".","c","o","m">>
TraceDomain(m) == IF m % 2 = 0 THEN DomainNews ELSE DomainA

Edge(a, b) == [src |-> TraceUrl(a), dst |-> TraceUrl(b), weight |-> 10,
               relationship |-> "citation"]

NodeData(m, date) ==
    [title |-> <<>>, publish_date |-> date, domain |-> TraceDomain(m), sources |-> <<>>]

\* ten days of age weigh as much as one edge: the first or the last node of a
\* small graph has a date, or none has
SmallDate(dated, m) == IF m = dated THEN Naive(Today - 10) ELSE Unknown

Shapes == {"none", "chain", "ring", "star", "sink"}
ShapeEdges(shape, n) ==
    {Edge(a, b) : <<a, b>> \in
        {q \in (1..n) \X (1..n) :
            /\ q[1] # q[2]
            /\ CASE shape = "chain" -> q[2] = q[1] + 1
                 [] shape = "ring" -> q[2] = (q[1] % n) + 1
                 [] shape = "star" -> q[1] = 1
                 [] shape = "sink" -> q[2] = 1
                 [] OTHER -> FALSE}}

DateProfiles == {"unknown", "last old", "last aware", "first recent"}
ProfileDate(profile, n, m) ==
    CASE profile = "last old" /\ m = n -> Naive(Today - 200)
      [] profile = "last aware" /\ m = n -> Aware(Today - 200)
      [] profile = "first recent" /\ m = 1 -> Naive(Today - 15)
      [] OTHER -> Unknown

SmallGraph ==
    \E n \in 0..SmallNodes :
    \E links \in SUBSET {q \in (1..n) \X (1..n) : q[1] # q[2]} :
    \E dated \in {0, 1, n} :
        /\ nodes = TraceNodes(n)
        /\ data = [u \in Range(TraceNodes(n)) |->
                      LET m == CHOOSE m \in 1..n : TraceUrl(m) = u
                      IN  NodeData(m, SmallDate(dated, m))]
        /\ edges = {Edge(q[1], q[2]) : q \in links}

ShapedGraph ==
    \E n \in (SmallNodes + 1)..MaxNodes :
    \E shape \in Shapes :
    \E profile \in DateProfiles :
        /\ nodes = TraceNodes(n)
        /\ data = [u \in Range(TraceNodes(n)) |->
                      LET m == CHOOSE m \in 1..n : TraceUrl(m) = u
                      IN  NodeData(m, ProfileDate(profile, n, m))]
        /\ edges = ShapeEdges(shape, n)

InitTrace ==
    /\ pc = "built"
    /\ now = Today
    /\ articles_list = <<>>
    /\ k = 0 /\ i = 0 /\ j = 0
    /\ SmallGraph \/ ShapedGraph
    /\ Idle

SpecTrace == InitTrace /\ [][Trace]_vars

-----------------------------------------------------------------------------
(* check_credibility *)

WHITELIST_DOMAINS ==
    <<<<"b","b","c",".","c","o","m">>,
      <<"b","b","c",".","c","o",".","u","k">>,
      <<"r","e","u","t","e","r","s",".","c","o","m">>,
      <<"a","p","n","e","w","s",".","c","o","m">>,
      <<"n","p","r",".","o","r","g">>,
      <<"t","h","e","g","u","a","r","d","i","a","n",".","c","o","m">>,
      <<"n","y","t","i","m","e","s",".","c","o","m">>,
      <<"w","a","s","h","i","n","g","t","o","n","p","o","s","t",".","c","o","m">>,
      <<"w","s","j",".","c","o","m">>,
      <<"e","c","o","n","o","m","i","s","t",".","c","o","m">>,
      <<"f","t",".","c","o","m">>,
      <<"b","l","o","o","m","b","e","r","g",".","c","o","m">>,
      <<"c","n","n",".","c","o","m">>,
      <<"a","b","c","n","e","w","s",".","g","o",".","c","o","m">>,
      <<"c","b","s","n","e","w","s",".","c","o","m">>,
      <<"n","b","c","n","e","w","s",".","c","o","m">>,
      <<"p","b","s",".","o","r","g">>,
      <<"t","i","m","e",".","c","o","m">>,
      <<"n","e","w","s","w","e","e","k",".","c","o","m">>>>

BLACKLIST_DOMAINS ==
    <<<<"f","a","k","e","-","n","e","w","s",".","c","o","m">>,
      <<"c","o","n","s","p","i","r","a","c","y","-","s","i","t","e",".","o","r","g">>,
      <<"c","l","i","c","k","b","a","i","t","-","n","e","w","s",".","n","e","t">>,
      <<"h","o","a","x","-","s","t","o","r","i","e","s",".","c","o","m">>,
      <<"u","n","r","e","l","i","a","b","l","e","-","s","o","u","r","c","e",".","i","n","f","o">>,
      <<"p","r","o","p","a","g","a","n","d","a","-","d","a","i","l","y",".","c","o","m">>>>

\* BLACKLIST_DOMAINS, followed by the caller's domains when there are any
EffectiveBlacklist(blacklist) ==
    IF blacklist.given THEN BLACKLIST_DOMAINS \o blacklist.domains
    ELSE BLACKLIST_DOMAINS

\* dict.get(key, default)
Get(d, key, default) == IF key \in DOMAIN d THEN d[key] ELSE default

\* any(entry in domain for entry in domains)
AnyIn(domains, domain) ==
    \E n \in DOMAIN domains : IsSubstring(domains[n], domain)

\* the sentinels of an absent domain and of an absent author
UnknownDomain == <<"u","n","k","n","o","w","n">>
AuthorUnknown == <<"U","n","k","n","o","w","n">>
UnknownAuthor == <<"U","n","k","n","o","w","n"," ","A","u","t","h","o","r">>

\* a Python value that is false in a condition: None or the empty string
Falsy(value) == value = PyNone \/ value = <<>>

StartScore == 5

\* both lists looked at independently of each other
BothListsStep(domain, blacklist) ==
    [delta |-> (IF AnyIn(WHITELIST_DOMAINS, domain) THEN 3 ELSE 0)
               + (IF AnyIn(EffectiveBlacklist(blacklist), domain) THEN -4 ELSE 0),
     flags |-> (IF AnyIn(WHITELIST_DOMAINS, domain)
                THEN <<"Reputable news source">> ELSE <<>>)
               \o (IF AnyIn(EffectiveBlacklist(blacklist), domain)
                   THEN <<"Domain on credibility watchlist">> ELSE <<>>)]

\* 1. domain reputation: the allow-list is looked at first
DomainStep(domain, blacklist) ==
    IF AnyIn(WHITELIST_DOMAINS, domain)
    THEN [delta |-> 3, flags |-> <<"Reputable news source">>]
    ELSE IF AnyIn(EffectiveBlacklist(blacklist), domain)
    THEN [delta |-> -4, flags |-> <<"Domain on credibility watchlist">>]
    ELSE [delta |-> 0, flags |-> <<>>]

EndsWith(s, suffix) ==
    /\ Len(s) >= Len(suffix)
    /\ Slice(s, Len(s) - Len(suffix) + 1, Len(s)) = suffix

\* \d{2,}: two digits in a row
HasDigitRun(s) ==
    \E p \in 1..(Len(s) - 1) : s[p] \in Digits /\ s[p + 1] \in Digits

CheapTlds == {<<".","x","y","z">>, <<".","t","k">>, <<".","m","l">>}
FakeWords ==
    {<<"f","a","k","e">>, <<"h","o","a","x">>, <<"s","a","t","i","r","e">>,
     <<"p","a","r","o","d","y">>}

\* re.search(pattern, domain, re.IGNORECASE) for one of SUSPICIOUS_PATTERNS
SUSPICIOUS_PATTERNS(domain) ==
    \/ \E tld \in CheapTlds : EndsWith(Lower(domain), tld)
    \/ HasDigitRun(domain)
    \/ \E word \in FakeWords : IsSubstring(word, Lower(domain))

\* 2. domain pattern: the loop stops at the first pattern that matches
PatternStep(domain) ==
    IF SUSPICIOUS_PATTERNS(domain)
    THEN [delta |-> -2, flags |-> <<"Suspicious domain pattern detected">>]
    ELSE [delta |-> 0, flags |-> <<>>]

Whitespace == {" ", "\t", "\n"}

\* len(author.split())
Tokens(s) ==
    Cardinality({p \in DOMAIN s :
                    /\ s[p] \notin Whitespace
                    /\ (p = 1 \/ s[p - 1] \in Whitespace)})

HasDigit(s) == \E p \in DOMAIN s : s[p] \in Digits

\* 3. author
AuthorStep(author) ==
    IF ~Falsy(author) /\ author # AuthorUnknown /\ author # UnknownAuthor
    THEN IF Tokens(author) >= 2 /\ ~HasDigit(author)
         THEN [delta |-> 1, flags |-> <<"Author identified">>]
         ELSE [delta |-> 0, flags |-> <<"Questionable author attribution">>]
    ELSE [delta |-> -1, flags |-> <<"No author information">>]

DaysPerYear == 365

\* 4. recency, inside try: a string that does not parse and a zone-aware date
\* (datetime.now() - pub_date) end in the except branch; an absent date and the
\* sentinels skip the step.  age_years = days / 365, so age_years > 1 is
\* days > 365, int(age_years) is days \div 365 and age_years < 0.1 is
\* 10 * days < 365
RecencyStep(today, publish_date) ==
    IF publish_date.kind \in {"none", "empty", "unknown", "unknown_date"}
    THEN [delta |-> 0, flags |-> <<>>, is_recent |-> "None"]
    ELSE IF ~Parses(publish_date) \/ SubtractRaises(publish_date)
    THEN [delta |-> 0, flags |-> <<"Unable to verify publication date">>,
          is_recent |-> "None"]
    ELSE LET days == DaysOld(today, publish_date)
             is_recent == IF days < DaysPerYear THEN "True" ELSE "False"
         IN  IF days > DaysPerYear
             THEN [delta |-> -(days \div DaysPerYear),
                   flags |-> <<"Article is " \o ToString(days \div DaysPerYear)
                                  \o " year(s) old">>,
                   is_recent |-> is_recent]
             ELSE IF 10 * days < DaysPerYear
             THEN [delta |-> 1, flags |-> <<"Recent publication">>,
                   is_recent |-> is_recent]
             ELSE [delta |-> 0, flags |-> <<>>, is_recent |-> is_recent]

\* re.search(word, s, re.IGNORECASE) for a pattern without operators
ContainsCI(word, s) ==
    \E p \in 1..(Len(s) - Len(word) + 1) :
        \A n \in 1..Len(word) : LowerChar(s[p + n - 1]) = LowerChar(word[n])

\* \w
IsWordChar(c) == IsLetter(c) \/ c \in Digits \/ c = "_"

\* \b[A-Z]{5,}\b under re.IGNORECASE: a word of five letters or more, of
\* either case, between two word boundaries
LongWord(s) ==
    \E p \in DOMAIN s :
        /\ (p = 1 \/ ~IsWordChar(s[p - 1]))
        /\ p + 4 <= Len(s)
        /\ \A n \in p..(p + 4) : IsLetter(s[n])
        /\ \E q \in (p + 4)..Len(s) :
              /\ \A n \in (p + 5)..q : IsLetter(s[n])
              /\ (q = Len(s) \/ ~IsWordChar(s[q + 1]))

PlainIndicators ==
    {<<"S","H","O","C","K","I","N","G">>, <<"U","N","B","E","L","I","E","V","A","B","L","E">>,
     <<"E","X","P","O","S","E","D">>, <<"C","O","N","S","P","I","R","A","C","Y">>,
     <<"S","E","C","R","E","T">>, <<"R","E","V","E","A","L","E","D">>}

\* BREAKING[!:\s]
Breaking(title) ==
    \E c \in {"!", ":"} \cup Whitespace :
        ContainsCI(<<"B","R","E","A","K","I","N","G">> \o <<c>>, title)

\* YOU WON\'?T BELIEVE
WontBelieve(title) ==
    \/ ContainsCI(<<"Y","O","U"," ","W","O","N","T"," ","B","E","L","I","E","V","E">>, title)
    \/ ContainsCI(<<"Y","O","U"," ","W","O","N","'","T"," ","B","E","L","I","E","V","E">>, title)

\* the plain words among the indicators only
PlainIndicatorCount(title) ==
    Cardinality({word \in PlainIndicators : ContainsCI(word, title)})

\* the number of the nine sensational_indicators that match the title
sensational_count(title) ==
    Cardinality({word \in PlainIndicators : ContainsCI(word, title)})
    + (IF Breaking(title) THEN 1 ELSE 0)
    + (IF WontBelieve(title) THEN 1 ELSE 0)
    + (IF LongWord(title) THEN 1 ELSE 0)

\* 5. sensational title
SensationalStep(title) ==
    IF sensational_count(title) >= 2
    THEN [delta |-> -2, flags |-> <<"Sensationalized headline detected">>]
    ELSE [delta |-> 0, flags |-> <<>>]

\* str.count(c)
Count(s, c) == Cardinality({p \in DOMAIN s : s[p] = c})

\* 6. punctuation
PunctuationStep(title) ==
    IF Count(title, "!") > 1 \/ Count(title, "?") > 1
    THEN [delta |-> -1, flags |-> <<"Excessive punctuation in title">>]
    ELSE [delta |-> 0, flags |-> <<>>]

\* the fields check_credibility reads, with their defaults
FieldsOf(article) ==
    LET metadata == Get(article, "metadata", article)
    IN  [domain |-> Get(metadata, "domain",
                        Get(article, "domain", UnknownDomain)),
         author |-> Get(metadata, "author", AuthorUnknown),
         publish_date |-> Get(metadata, "publish_date", Unknown),
         title |-> Get(metadata, "title", <<>>)]

\* the six steps in the order of the code
StepsOf(today, article, blacklist) ==
    LET f == FieldsOf(article)
    IN  <<DomainStep(f.domain, blacklist), PatternStep(f.domain),
          AuthorStep(f.author), RecencyStep(today, f.publish_date),
          SensationalStep(f.title), PunctuationStep(f.title)>>

\* the adjustments alone, without the neutral start
RawScoreFromZero(steps) ==
    steps[1].delta + steps[2].delta + steps[3].delta
        + steps[4].delta + steps[5].delta + steps[6].delta

\* the score before it is normalized
RawScore(steps) ==
    StartScore + steps[1].delta + steps[2].delta + steps[3].delta
               + steps[4].delta + steps[5].delta + steps[6].delta

\* max(0, min(10, score))
WithoutFloor(score) == Min({10, score})
Normalize(score) == Max({0, Min({10, score})})

ColorOf(score) ==
    IF score >= 7 THEN [color |-> "green", risk_level |-> "Low Risk"]
    ELSE IF score >= 4 THEN [color |-> "yellow", risk_level |-> "Medium Risk"]
    ELSE [color |-> "red", risk_level |-> "High Risk"]

\* round(score, 1) of an int is that int
check_credibility(today, article, blacklist) ==
    LET f == FieldsOf(article)
        steps == StepsOf(today, article, blacklist)
        score == Normalize(RawScore(steps))
    IN  [returned |-> TRUE,
         score |-> score,
         flags |-> steps[1].flags \o steps[2].flags \o steps[3].flags
                   \o steps[4].flags \o steps[5].flags \o steps[6].flags,
         color |-> ColorOf(score).color,
         risk_level |-> ColorOf(score).risk_level,
         domain |-> f.domain,
         details |->
            [domain_reputation |->
                IF AnyIn(WHITELIST_DOMAINS, f.domain) THEN "whitelisted"
                ELSE "unknown",
             author_verified |->
                f.author # AuthorUnknown /\ f.author # UnknownAuthor,
             is_recent |-> steps[4].is_recent]]

-----------------------------------------------------------------------------
(* check_credibility called on one article: domains on and off the lists,     *)
(* every kind of author and of date, ages on both sides of 36 days and of a   *)
(* year, titles with and without sensational patterns                         *)

DomainBbc == <<"b","b","c",".","c","o","m">>
DomainFake == <<"f","a","k","e","-","n","e","w","s",".","c","o","m">>
DomainOrg == <<"x",".","o","r","g">>
CredDomainPool ==
    {DomainBbc, DomainFake, DomainOrg, <<"n","e","w","s","2","4",".","x","y","z">>,
     <<"b","b","c",".","c","o","m",".","t","k">>}

AuthorJohnSmith == <<"J","o","h","n"," ","S","m","i","t","h">>
AuthorPool ==
    {PyNone, <<>>, AuthorUnknown, UnknownAuthor, AuthorJohnSmith,
     <<"J","o","h","n">>, <<"A","g","e","n","t"," ","4","7">>}

CredAgePool == {-3, 0, 36, 37, 365, 366, 1500, 4000}
CredDatePool ==
    {Naive(Today - age) : age \in CredAgePool}
    \cup {Aware(Today), Unknown, UnknownDate, EmptyDate, Malformed, None}

TitleShocking ==
    <<"S","H","O","C","K","I","N","G","!","!","!"," ",
      "B","R","E","A","K","I","N","G"," ",
      "N","E","W","S","!","!","!">>
CredTitlePool ==
    {<<>>, <<"R","a","i","n">>, <<"R","a","i","n"," ","t","o","d","a","y">>,
     TitleShocking,
     <<"S","e","c","r","e","t"," ","p","l","a","n">>, <<"W","h","y","?"," ","H","o","w","?">>,
     <<"Y","o","u"," ","w","o","n","'","t"," ","b","e","l","i","e","v","e"," ","i","t","!">>}

BlacklistPool == {NoBlacklist, Blacklist(<<DomainOrg>>), Blacklist(<<DomainBbc>>)}

\* a key of the dict: absent, or present with a value
Absent(filler) == [has |-> FALSE, v |-> filler]
Present(S) == {[has |-> TRUE, v |-> x] : x \in S}

\* the dict of the keys that are present
MakeDict(opts) == [key \in {kk \in DOMAIN opts : opts[kk].has} |-> opts[key].v]

\* the flat article record, or the nested one whose metadata holds the author,
\* the date and the title
Layouts == {"flat", "nested"}
ArticleDict(layout, domain, author, date, title) ==
    IF layout = "flat"
    THEN MakeDict([domain |-> domain, author |-> author,
                   publish_date |-> date, title |-> title])
    ELSE MakeDict([domain |-> domain,
                   metadata |-> [has |-> TRUE,
                                 v |-> MakeDict([author |-> author,
                                                 publish_date |-> date,
                                                 title |-> title])]])

\* the call check_credibility(article_dict, custom_blacklist) is entered
InitCred ==
    /\ pc = "check"
    /\ now = Today
    /\ articles_list = <<>>
    /\ k = 0 /\ i = 0 /\ j = 0
    /\ nodes = <<>> /\ data = <<>> /\ edges = {}
    /\ start_url = NoUrl /\ result = NoResult
    /\ \E layout \in Layouts :
       \E domain \in Present(CredDomainPool) \cup {Absent(<<>>)} :
       \E author \in Present(AuthorPool) \cup {Absent(<<>>)} :
       \E date \in Present(CredDatePool) \cup {Absent(None)} :
       \E title \in Present(CredTitlePool) \cup {Absent(<<>>)} :
          article_dict = ArticleDict(layout, domain, author, date, title)
    /\ custom_blacklist \in BlacklistPool
    /\ assessment = NoAssessment
    /\ results = NoResults

\* check_credibility runs to its return
CheckCredibility ==
    /\ pc = "check"
    /\ assessment' = check_credibility(now, article_dict, custom_blacklist)
    /\ pc' = "assessed"
    /\ UNCHANGED <<now, articles_list, k, graphVars, i, j, start_url, result,
                   article_dict, custom_blacklist, results>>

SpecCred == InitCred /\ [][CheckCredibility]_vars

-----------------------------------------------------------------------------
(* batch_check_credibility *)

\* results[url] = value
Put(d, key, value) ==
    [x \in DOMAIN d \cup {key} |-> IF x = key THEN value ELSE d[x]]

\* every article stored, whatever its url
StoreAlways(today, mapping, article, blacklist) ==
    Put(mapping, Get(article, "url", <<>>),
        check_credibility(today, article, blacklist))

\* lines 156-158: one pass of the loop
StoreResult(today, mapping, article, blacklist) ==
    LET url == Get(article, "url", <<>>)
    IN  IF ~Falsy(url)
        THEN Put(mapping, url, check_credibility(today, article, blacklist))
        ELSE mapping

\* articles with a url of their own, with the url of another, with an empty
\* url and with none; from a listed and from an unlisted domain
BatchUrlPool == Present({UrlA1, UrlB1, <<>>}) \cup {Absent(<<>>)}
BatchArticlePool ==
    {MakeDict([url |-> url,
               domain |-> [has |-> TRUE, v |-> domain],
               metadata |-> [has |-> TRUE,
                             v |-> [author |-> AuthorJohnSmith,
                                    publish_date |-> Naive(Today),
                                    title |-> title]]]) :
        url \in BatchUrlPool, domain \in {DomainBbc, DomainOrg},
        title \in {<<"R","a","i","n">>, TitleShocking}}

\* the call batch_check_credibility(articles_list, custom_blacklist) is entered
InitBatch ==
    /\ pc = "batch"
    /\ now = Today
    /\ articles_list \in SeqsUpTo(BatchArticlePool, MaxArticles)
    /\ k = 0 /\ i = 0 /\ j = 0
    /\ nodes = <<>> /\ data = <<>> /\ edges = {}
    /\ start_url = NoUrl /\ result = NoResult
    /\ article_dict = NoArticle
    /\ custom_blacklist \in {NoBlacklist, Blacklist(<<DomainOrg>>)}
    /\ assessment = NoAssessment
    /\ results = NoResults

\* lines 155-158 for the next article of the list
BatchStep ==
    /\ pc = "batch"
    /\ k < Len(articles_list)
    /\ results' = StoreResult(now, results, articles_list[k + 1], custom_blacklist)
    /\ k' = k + 1
    /\ UNCHANGED <<pc, now, articles_list, graphVars, i, j, start_url, result,
                   article_dict, custom_blacklist, assessment>>

\* line 160: return results
BatchReturn ==
    /\ pc = "batch"
    /\ k = Len(articles_list)
    /\ pc' = "batched"
    /\ UNCHANGED <<now, articles_list, k, graphVars, i, j, start_url, result>>
    /\ UNCHANGED credVars

Batch == BatchStep \/ BatchReturn

SpecBatch == InitBatch /\ [][Batch]_vars

-----------------------------------------------------------------------------
(* Properties of the graph builder *)

Built == pc \in {"built", "traced", "trace_raised"}

NodeSet == Range(nodes)

\* node a lists a source that names node b (line 45)
CitesNode(a, b) ==
    \E n \in DOMAIN data[a].sources : Cites(data[a].sources[n], b, data[b])

\* the ordered pairs of nodes whose loop body has run
DonePairs ==
    IF pc = "nodes" THEN {}
    ELSE {<<nodes[PairSeq[Len(nodes)][pos][1]], nodes[PairSeq[Len(nodes)][pos][2]]>> :
             pos \in 1..(k - 1)}

\* C1: at every point of the build, and in the graph it returns, no edge joins
\* a node to itself and no two edges share their source and their target.
C1_NoSelfLoopOneEdgePerPair ==
    /\ \A e \in edges : e.src # e.dst
    /\ \A e, f \in edges : (e.src = f.src /\ e.dst = f.dst) => e = f

\* an article that links to its own domain, in a finished graph that has edges
C1_Witness ==
    /\ pc = "built"
    /\ edges # {}
    /\ \E a \in NodeSet : \E n \in DOMAIN data[a].sources :
          IsSubstring(data[a].domain, data[a].sources[n].domain)

\* C2: once the loop body has run for the ordered pair (A, B) of distinct nodes
\* and A lists a source that names B's url or B's domain, the graph holds the
\* edge A->B as a citation edge, and holds it so in every later state and in the
\* returned graph: no later step makes it a similarity edge.
C2_CitationKept ==
    \A q \in DonePairs :
        (q[1] # q[2] /\ CitesNode(q[1], q[2])) =>
            \E e \in edges : e.src = q[1] /\ e.dst = q[2] /\ e.relationship = "citation"

\* a finished graph with a citation edge between two nodes whose titles are
\* similar and whose dates point the same way as the citation
C2_Witness ==
    /\ pc = "built"
    /\ \E e \in edges :
          /\ e.relationship = "citation"
          /\ AboveThreshold(Similarity(data[e.src].title, data[e.dst].title))
          /\ data[e.src].publish_date.kind = "naive"
          /\ data[e.dst].publish_date.kind = "naive"
          /\ data[e.src].publish_date.day < data[e.dst].publish_date.day

\* C3 (as claimed): a similarity edge joins only nodes whose titles are more
\* than 0.70 similar and whose dates both parse, from the earlier to the later;
\* two nodes whose titles are at most 0.70 similar have no similarity edge in
\* either direction.
C3_SimilarityEdgesAboveThreshold ==
    /\ \A e \in edges : e.relationship = "similarity" =>
          /\ parse_date_safe(data[e.src].publish_date) # None
          /\ parse_date_safe(data[e.dst].publish_date) # None
          /\ data[e.src].publish_date.day < data[e.dst].publish_date.day
    /\ \A a, b \in NodeSet :
          ~AboveThreshold(Similarity(data[a].title, data[b].title)) =>
              ~\E e \in edges : /\ e.relationship = "similarity"
                                /\ {e.src, e.dst} = {a, b}

\* C4 (as claimed): neither build_propagation_graph nor trace_origin raises,
\* whatever the publish dates are.
C4_NeverRaises == pc \notin {"build_raised", "trace_raised"}

\* C5: every assessment check_credibility returns has an integer score between
\* 0 and 10, the colour green with 'Low Risk' exactly when the score is 7 or
\* more, red with 'High Risk' exactly when it is below 4, and yellow with
\* 'Medium Risk' otherwise, whatever the article and the custom blacklist are
C5_ScoreRangeAndColor ==
    pc = "assessed" =>
        /\ assessment.score \in 0..10
        /\ assessment.color = "green" <=> assessment.score >= 7
        /\ assessment.color = "red" <=> assessment.score < 4
        /\ assessment.color = "yellow" <=>
              (assessment.score >= 4 /\ assessment.score < 7)
        /\ assessment.color = "green" <=> assessment.risk_level = "Low Risk"
        /\ assessment.color = "red" <=> assessment.risk_level = "High Risk"
        /\ assessment.color = "yellow" <=> assessment.risk_level = "Medium Risk"
        /\ assessment.color \in {"green", "yellow", "red"}

\* C5 witness: an assessment whose score before normalization was below 0,
\* returned with score 0 and the colour red, for a caller-supplied blacklist
C5_Witness ==
    /\ pc = "assessed"
    /\ custom_blacklist.given
    /\ RawScore(StepsOf(now, article_dict, custom_blacklist)) < 0
    /\ assessment.score = 0
    /\ assessment.color = "red"

\* C6: the weight of every edge is 1.0, plus 2.0, 1.0 or 0.5 when the target's
\* date is less than 7, 30 or 90 days old (nothing when it is older or does not
\* parse), plus 0.5 when both ends have the same domain; so it lies in 1.0..3.5.
C6_EdgeWeight ==
    \A e \in edges :
        LET target == data[e.dst].publish_date
            age == now - target.day
            bonus == IF target.kind \notin {"naive", "aware"} THEN 0
                     ELSE IF age <= 6 THEN 20
                     ELSE IF age <= 29 THEN 10
                     ELSE IF age <= 89 THEN 5
                     ELSE 0
            same == IF data[e.src].domain = data[e.dst].domain THEN 5 ELSE 0
        IN  /\ e.weight = 10 + bonus + same
            /\ e.weight >= 10 /\ e.weight <= 35

\* a finished graph with an edge of the greatest weight and an edge whose
\* target has a date that does not parse
C6_Witness ==
    /\ pc = "built"
    /\ \E e \in edges : e.weight = 35
    /\ \E e \in edges : data[e.dst].publish_date = Malformed /\ e.weight = 15

-----------------------------------------------------------------------------
(* Properties of trace_origin *)

ResultKeys == {"origin", "origin_domain", "path", "summary", "total_propagation",
               "mainstream_coverage"}

\* the candidacy score of a node, in tenths, written from the edge set
ScoreOf(u) ==
    LET outgoing == {e \in edges : e.src = u}
        incoming == {e \in edges : e.dst = u}
        date == data[u].publish_date
    IN  10 * (Cardinality(outgoing) - Cardinality(incoming))
          + (IF date.kind \in {"naive", "aware"} THEN now - date.day ELSE 0)

PositionOf(u) == CHOOSE n \in DOMAIN nodes : nodes[n] = u

\* the pairs (a, b) with a directed path of one edge or more from a to b
RECURSIVE Closure(_)
Closure(R) ==
    LET joined == R \cup UNION {{<<q[1], r[2]>> : r \in {t \in R : t[1] = q[2]}} : q \in R}
    IN  IF joined = R THEN R ELSE Closure(joined)
Paths == Closure({<<e.src, e.dst>> : e \in edges})

\* C7: on a graph without nodes trace_origin does not raise and returns
\* origin None, an empty path and the 'no data' summary, for every start_url.
C7_EmptyGraph ==
    nodes = <<>> =>
        /\ pc # "trace_raised"
        /\ pc = "traced" =>
              /\ result.origin = PyNone
              /\ result.path = <<>>
              /\ result.summary = [text |-> "No data available for tracing"]

\* the call on the empty graph has returned, its start_url being no node's url
C7_Witness == pc = "traced" /\ nodes = <<>> /\ start_url # UrlA1

\* C8 (as claimed): every record trace_origin returns carries all of origin,
\* origin_domain, path, summary, total_propagation and mainstream_coverage.
C8_AllKeysAlways == pc = "traced" => ResultKeys \subseteq DOMAIN result

\* C8 (amended): every record trace_origin returns carries origin, path and
\* summary; the record returned for a graph with nodes carries all six keys, the
\* one returned for the empty graph carries those three only.
C8_KeysByBranch ==
    pc = "traced" =>
        /\ {"origin", "path", "summary"} \subseteq DOMAIN result
        /\ nodes # <<>> => DOMAIN result = ResultKeys
        /\ nodes = <<>> => DOMAIN result = {"origin", "path", "summary"}

\* a call on a graph with nodes has returned
C8_Witness == pc = "traced" /\ nodes # <<>> /\ result.total_propagation > 0

C10_PropagationSet ==
    (pc = "traced" /\ nodes # <<>>) =>
        LET paths == Paths
            reached == {u \in NodeSet \ {result.origin} : <<result.origin, u>> \in paths}
            path == result.path
        IN  /\ result.total_propagation = Cardinality(reached)
            /\ Len(path) = 1 + (IF Cardinality(reached) < 5 THEN Cardinality(reached) ELSE 5)
            /\ Len(path) <= 6
            /\ path[1] = result.origin
            /\ \A n \in 2..Len(path) : path[n] \in reached
            /\ \A m, n \in DOMAIN path : m # n => path[m] # path[n]

\* the origin lies on a cycle and reaches more nodes than the path shows
C10_Witness ==
    /\ pc = "traced" /\ nodes # <<>>
    /\ <<result.origin, result.origin>> \in Paths
    /\ result.total_propagation > 5
    /\ Len(result.path) = 6

-----------------------------------------------------------------------------
(* Properties of check_credibility *)

Assessed == pc = "assessed"

HasFlag(flag) == \E n \in DOMAIN assessment.flags : assessment.flags[n] = flag

\* the sum of the adjustments of the steps other than step n
OtherDeltas(steps, n) ==
    LET Delta(m) == IF m = n THEN 0 ELSE steps[m].delta
    IN  Delta(1) + Delta(2) + Delta(3) + Delta(4) + Delta(5) + Delta(6)

OnWhitelist(domain) ==
    \E n \in DOMAIN WHITELIST_DOMAINS : IsSubstring(WHITELIST_DOMAINS[n], domain)

OnBlacklist(domain) ==
    \/ \E n \in DOMAIN BLACKLIST_DOMAINS : IsSubstring(BLACKLIST_DOMAINS[n], domain)
    \/ /\ custom_blacklist.given
       /\ \E n \in DOMAIN custom_blacklist.domains :
             IsSubstring(custom_blacklist.domains[n], domain)

Unparseable(date) == date.kind \in {"malformed", "unknown", "unknown_date"}

\* C12: whenever the publish date cannot be parsed into a date (a malformed
\* string or the 'Unknown' / 'Unknown Date' sentinel), the assessment has the
\* 'Unable to verify publication date' flag and the recency step changes the
\* score by 0.
C12_UnparseableDateFlagged ==
    (Assessed /\ Unparseable(FieldsOf(article_dict).publish_date)) =>
        /\ HasFlag("Unable to verify publication date")
        /\ assessment.score =
              Normalize(StartScore
                        + OtherDeltas(StepsOf(now, article_dict, custom_blacklist), 4))

-----------------------------------------------------------------------------
(* Properties of the build that do not look at the order of the list *)

\* the titles of a and b are more than 0.70 similar in the order the loop
\* body of (a, b) or of (b, a) compares them
Similar(a, b) ==
    \/ AboveThreshold(TitleSimilarity[data[a].title, data[b].title])
    \/ AboveThreshold(TitleSimilarity[data[b].title, data[a].title])

\* a is dated strictly before b
Earlier(a, b) ==
    /\ Parses(data[a].publish_date) /\ Parses(data[b].publish_date)
    /\ data[a].publish_date.day < data[b].publish_date.day

\* the loop body of some ordered pair raises: a zone-aware target of an edge,
\* or two similar titles with a zone-aware and a naive date
SomePairRaises ==
    \E a, b \in NodeSet :
        /\ a # b
        /\ \/ CitesNode(a, b) /\ SubtractRaises(data[b].publish_date)
           \/ /\ AboveThreshold(TitleSimilarity[data[a].title, data[b].title])
              /\ Parses(data[a].publish_date) /\ Parses(data[b].publish_date)
              /\ \/ data[a].publish_date.kind # data[b].publish_date.kind
                 \/ data[a].publish_date.kind = "aware"
                    /\ data[a].publish_date.day # data[b].publish_date.day

\* the edges as a function of the set of articles
EdgesOfSet ==
    {[src |-> a, dst |-> b,
      weight |-> calculate_edge_weight(now, data[a], data[b]).weight,
      relationship |-> IF CitesNode(a, b) THEN "citation" ELSE "similarity"] :
        <<a, b>> \in {q \in NodeSet \X NodeSet :
                        /\ q[1] # q[2]
                        /\ \/ CitesNode(q[1], q[2])
                           \/ Similar(q[1], q[2]) /\ Earlier(q[1], q[2])}}

\* C13: the edges build_propagation_graph returns, with their kinds and
\* weights, and whether it returns at all, are determined by the set of
\* articles: every order of a list of articles with distinct urls gives the
\* same edges.
C13_EdgesOrderIndependent ==
    /\ pc = "built" => (edges = EdgesOfSet /\ ~SomePairRaises)
    /\ pc = "build_raised" => SomePairRaises

\* the cited article comes first in the list and the citing one is the
\* earlier of two similar titles: the loop adds the similarity edge first
C13_Witness ==
    /\ pc = "built"
    /\ nodes = <<UrlA1, UrlB1>>
    /\ CitesNode(UrlB1, UrlA1)
    /\ Similar(UrlB1, UrlA1) /\ Earlier(UrlB1, UrlA1)
    /\ \E e \in edges :
          e.src = UrlB1 /\ e.dst = UrlA1 /\ e.relationship = "citation"

\* the nodes other than b that cite b, and those that b cites
CitedBy(b) == {a \in NodeSet \ {b} : CitesNode(a, b)}
CitedFrom(a) == {b \in NodeSet \ {a} : CitesNode(a, b)}

NoSimilarityEdge(u) ==
    \A e \in edges : (e.src = u \/ e.dst = u) => e.relationship # "similarity"

\* C14: in the graph build_propagation_graph returns, a node that k other
\* nodes cite, that cites none itself and has no similarity edge has
\* out-degree - in-degree = k, and a node that only cites others has a
\* negative difference.
C14_CitedRaisesOutDegree ==
    pc = "built" =>
        \A u \in NodeSet :
            NoSimilarityEdge(u) =>
                /\ CitedFrom(u) = {} =>
                      out_degree(edges, u) - in_degree(edges, u)
                          = Cardinality(CitedBy(u))
                /\ (CitedFrom(u) # {} /\ CitedBy(u) = {}) =>
                      out_degree(edges, u) - in_degree(edges, u) < 0

-----------------------------------------------------------------------------
(* The two-article scenario of the graph test *)

\* the graph holds a and b only; a, dated one day after b, lists a source with
\* b's domain, b lists none, and their titles are not more than 0.70 similar
Scenario(a, b) ==
    /\ a # b /\ NodeSet = {a, b} /\ Len(nodes) = 2
    /\ \E n \in DOMAIN data[a].sources :
          IsSubstring(data[b].domain, data[a].sources[n].domain)
    /\ data[b].sources = <<>>
    /\ data[a].publish_date = Naive(Today - ScenarioAge)
    /\ data[b].publish_date = Naive(Today - ScenarioAge - 1)
    /\ ~Similar(a, b)

\* C15: for A (2024-01-15, citing B's domain) and B (2024-01-14, no sources)
\* with unlike titles the graph has 2 nodes and the single edge A->B of kind
\* 'citation'; trace_origin started from A's url returns the one of A and B
\* with the higher candidacy score, determined by the two articles alone, and
\* the summary names that node's domain.
C15_TwoArticleScenario ==
    \A a, b \in NodeSet :
        Scenario(a, b) =>
            /\ pc \notin {"build_raised", "trace_raised"}
            /\ pc \in {"built", "traced"} =>
                  /\ Cardinality(edges) = 1
                  /\ \A e \in edges :
                        e.src = a /\ e.dst = b /\ e.relationship = "citation"
            /\ (pc = "traced" /\ start_url = a) =>
                  /\ result.origin = a
                  /\ ScoreOf(a) > ScoreOf(b)
                  /\ result.origin_domain = data[a].domain
                  /\ result.summary.origin_domain = data[a].domain

\* the scenario traced from A's url, with B first in the list
C15_Witness ==
    /\ pc = "traced"
    /\ Len(nodes) = 2 /\ Scenario(nodes[2], nodes[1])
    /\ start_url = nodes[2]
    /\ result.origin = nodes[2]

-----------------------------------------------------------------------------
(* The scenarios of the credibility tests *)

\* fewer than 2 sensational patterns, at most one '!' and at most one '?'
NeutralTitle(title) ==
    /\ sensational_count(title) < 2
    /\ Count(title, "!") <= 1 /\ Count(title, "?") <= 1

\* C16: an article from bbc.com by 'John Smith', dated today, with a neutral
\* title gets a score above 6 and the colour green.
C16_TrustedSource ==
    LET f == FieldsOf(article_dict)
    IN  (/\ Assessed
         /\ f.domain = DomainBbc
         /\ f.author = AuthorJohnSmith
         /\ f.publish_date \in {Naive(now), Aware(now)}
         /\ NeutralTitle(f.title)) =>
            /\ assessment.score > 6
            /\ assessment.color = "green"

\* the trusted article with a title, assessed at 10
C16_Witness ==
    /\ Assessed
    /\ assessment.domain = DomainBbc
    /\ FieldsOf(article_dict).author = AuthorJohnSmith
    /\ FieldsOf(article_dict).publish_date = Naive(now)
    /\ FieldsOf(article_dict).title # <<>>
    /\ NeutralTitle(FieldsOf(article_dict).title)
    /\ assessment.score = 10 /\ assessment.color = "green"

\* C17: an article from fake-news.com by 'Unknown', dated a year or more
\* before now, titled 'SHOCKING!!! BREAKING NEWS!!!' gets a score below 5, the
\* colour red, the watchlist flag and the sensationalized-headline flag.
C17_SuspiciousSource ==
    LET f == FieldsOf(article_dict)
    IN  (/\ Assessed
         /\ f.domain = DomainFake
         /\ f.author = AuthorUnknown
         /\ f.publish_date.kind = "naive"
         /\ now - f.publish_date.day >= DaysPerYear
         /\ f.title = TitleShocking) =>
            /\ assessment.score < 5
            /\ assessment.color = "red"
            /\ HasFlag("Domain on credibility watchlist")
            /\ HasFlag("Sensationalized headline detected")

\* the suspicious article dated exactly 365 days before now, which the recency
\* step leaves alone
C17_Witness ==
    /\ Assessed
    /\ assessment.domain = DomainFake
    /\ FieldsOf(article_dict).author = AuthorUnknown
    /\ FieldsOf(article_dict).publish_date = Naive(now - DaysPerYear)
    /\ FieldsOf(article_dict).title = TitleShocking
    /\ assessment.color = "red"
    /\ HasFlag("Sensationalized headline detected")
    /\ \A n \in DOMAIN assessment.flags :
          assessment.flags[n] # "Article is 1 year(s) old"

-----------------------------------------------------------------------------
(* Properties of batch_check_credibility *)

UrlOf(n) == Get(articles_list[n], "url", <<>>)

\* C18 as stated: the returned mapping has as many entries as the list has
\* articles, every article's url is a key, and the value under it is
\* check_credibility of that article with the same custom blacklist.
C18_OneResultPerArticle ==
    pc = "batched" =>
        /\ Cardinality(DOMAIN results) = Len(articles_list)
        /\ \A n \in DOMAIN articles_list :
              /\ UrlOf(n) \in DOMAIN results
              /\ results[UrlOf(n)]
                    = check_credibility(now, articles_list[n], custom_blacklist)

\* C18, amended: the keys of the returned mapping are the non-empty urls of
\* the list, the value under a url is check_credibility of the last article
\* with that url, with the same custom blacklist; the mapping has as many
\* entries as the list has articles when every article has a non-empty url
\* and no two share one.
C18_OneResultPerUrl ==
    pc = "batched" =>
        /\ DOMAIN results =
              {UrlOf(n) : n \in {p \in DOMAIN articles_list : UrlOf(p) # <<>>}}
        /\ \A n \in DOMAIN articles_list :
              (/\ UrlOf(n) # <<>>
               /\ \A p \in DOMAIN articles_list : p > n => UrlOf(p) # UrlOf(n)) =>
                  results[UrlOf(n)]
                      = check_credibility(now, articles_list[n], custom_blacklist)
        /\ (\A n \in DOMAIN articles_list :
                /\ UrlOf(n) # <<>>
                /\ \A p \in DOMAIN articles_list : p # n => UrlOf(p) # UrlOf(n)) =>
              Cardinality(DOMAIN results) = Len(articles_list)

\* a list of two articles of which one has no url: one result
C18_Witness ==
    /\ pc = "batched"
    /\ Len(articles_list) = 2
    /\ UrlOf(1) = <<>> /\ UrlOf(2) # <<>>
    /\ custom_blacklist.given
    /\ DOMAIN results = {UrlOf(2)}
    /\ results[UrlOf(2)].returned

-----------------------------------------------------------------------------
(* The recency step *)

\* what the recency step is to do for an age in days
RecencyOf(days) ==
    IF days > DaysPerYear THEN -(days \div DaysPerYear)
    ELSE IF 10 * days < DaysPerYear THEN 1
    ELSE 0

AgeFlag(days) == "Article is " \o ToString(days \div DaysPerYear) \o " year(s) old"

\* C19: for a publish date that parses, of age d days, the recency step
\* subtracts d div 365 and flags the age when d is more than a year, adds 1
\* with 'Recent publication' when d is below about 36 days, and changes and
\* flags nothing in between; the adjustment never increases with the age.
C19_RecencyByAge ==
    LET date == FieldsOf(article_dict).publish_date
        days == now - date.day
    IN  (Assessed /\ Parses(date)) =>
            /\ assessment.score =
                  Normalize(StartScore + RecencyOf(days)
                            + OtherDeltas(StepsOf(now, article_dict, custom_blacklist), 4))
            /\ HasFlag(AgeFlag(days)) <=> days > DaysPerYear
            /\ HasFlag("Recent publication") <=> 10 * days < DaysPerYear
            /\ \A other \in CredDatePool :
                  (Parses(other) /\ other.day < date.day) =>
                      RecencyStep(now, other).delta <= RecencyStep(now, date).delta

-----------------------------------------------------------------------------
(* trace_origin and its start url *)

\* C20: the record trace_origin returns is the one it returns for every other
\* start url, and is never the 'Unable to determine origin' record built from
\* start_url: the empty graph returns before, and a graph with nodes always
\* has candidates.
C20_StartUrlIrrelevant ==
    pc = "traced" =>
        LET shown == IF result.path = <<>> THEN <<>> ELSE Tail(result.path)
        IN  /\ \A start \in StartUrls \ {start_url} :
                  result = TraceResult(nodes, data, edges, now, start, shown)
            /\ result.summary.text # "Unable to determine origin"
            /\ nodes # <<>> => result.origin \in NodeSet
            /\ nodes # <<>> => Len(Candidates(nodes, data, edges, now)) = Len(nodes)

\* a graph without edges and without dates, traced from a url that is not one
\* of its nodes: the first node is returned
C20_Witness ==
    /\ pc = "traced"
    /\ Len(nodes) >= 2 /\ edges = {}
    /\ \A u \in NodeSet : data[u].publish_date = Unknown
    /\ start_url \notin NodeSet
    /\ result.origin = nodes[1]

-----------------------------------------------------------------------------
(* check_credibility: details.author_verified against the author step *)

\* C21: in every assessment returned, details.author_verified agrees with the
\* author step: it is true only if the 'Author identified' flag was given, and
\* it is false whenever the 'No author information' flag was given, whatever
\* the author is (absent, empty, None, a sentinel, implausible or plausible).
C21_AuthorVerifiedAgrees ==
    Assessed =>
        /\ assessment.details.author_verified => HasFlag("Author identified")
        /\ HasFlag("No author information") => ~assessment.details.author_verified

====
